---- MODULE Spec2Model ----
(***************************************************************************)
(* Model of sympy/core/basic.py: the node algebra of Basic (construction,  *)
(* structural equality, hashing, compare, sort_key) and the substitution   *)
(* engine (subs, _subs, xreplace).                                         *)
(*                                                                         *)
(* A node is a record                                                      *)
(*   [cls, name, args, tags, elems]                                        *)
(* cls   : the class name (type(self).__name__)                            *)
(* args  : self._args, a sequence of items                                 *)
(* tags  : the assumptions given at construction, a set of <<key, value>>  *)
(* name  : the datum of an Atom (Symbol name, Integer value), 0 otherwise  *)
(* elems : the members when the item is a raw frozenset, {} otherwise      *)
(* An item of a content tuple is a node or a raw Python value; a raw value *)
(* is a record of the same shape with cls "str" or "frozenset".            *)
(***************************************************************************)
EXTENDS Integers, Sequences, FiniteSets, TLC

VARIABLES a, b, c, expr, sequence, unordered, simultaneous, ruleArg,
          queryArg, valueArg, patternArgs, op, out,
          mhash, pc, hLocal, returned

\* what a call on nodes leaves alone: its arguments, and the hash cache of
\* the receiver with the __hash__ calls that are under way
inputs == <<a, b, c, expr, sequence, unordered, simultaneous, ruleArg,
            queryArg, valueArg, patternArgs, mhash, pc, hLocal, returned>>

vars == <<a, b, c, expr, sequence, unordered, simultaneous, ruleArg,
          queryArg, valueArg, patternArgs, op, out,
          mhash, pc, hLocal, returned>>

(***************************************************************************)
(* Bounds of the explored inputs.                                          *)
(***************************************************************************)
NumNames == 2

\* the number of threads that call __hash__ on one node
NumThreads == 2

\* the number of __hash__ calls of a thread
MaxCalls == 2

NumWilds == 2

Names == 1..NumNames

(***************************************************************************)
(* Node construction                                                       *)
(***************************************************************************)
NoTags == {}

\* Basic.__new__(cls, *args, **assumptions): _args = args, the assumptions
\* are handed to _init_assumptions, _mhash starts as None (kept apart, see
\* the hash cache below).
Basic_new(cls, args, assumptions) ==
    [cls |-> cls, name |-> 0, args |-> args, tags |-> assumptions, elems |-> {}]

\* An Atom subclass instance (Symbol, Integer): no args, one datum.
Atom_new(cls, name, assumptions) ==
    [cls |-> cls, name |-> name, args |-> <<>>, tags |-> assumptions, elems |-> {}]

\* Raw (non-Basic) Python values that occur inside content tuples.
RawStr(s) == [cls |-> "str", name |-> s, args |-> <<>>, tags |-> {}, elems |-> {}]

RawFrozenset(S) == [cls |-> "frozenset", name |-> 0, args |-> <<>>, tags |-> {}, elems |-> S]

\* isinstance(x, Basic)
IsBasic(x) == x.cls \notin {"str", "frozenset", "NoneType"}

\* isinstance(x, frozenset)
IsFrozenset(x) == x.cls = "frozenset"

\* Basic.is_Atom / Atom.is_Atom
is_Atom(n) == n.cls \in {"Symbol", "Dummy", "Wild", "Integer"}

\* Basic.is_Symbol (True for Symbol and its subclasses Dummy and Wild)
is_Symbol(n) == n.cls \in {"Symbol", "Dummy", "Wild"}

\* isinstance(x, C.Pow)
IsPow(x) == x.cls = "Pow"

\* Pow.base, Pow.exp: the two arguments of a Pow node
PowBase(n) == n.args[1]

PowExp(n) == n.args[2]

\* S.One, what _sympify(1) returns
One == Atom_new("Integer", 1, NoTags)

Symbol(i) == Atom_new("Symbol", i, NoTags)

\* _init_assumptions: _assume_type_keys is the set of the given keys
\* (None, here the empty set, when no assumption was given)
assume_type_keys(n) == {p[1] : p \in n.tags}

\* Basic.args
ArgsOf(n) == n.args

\* Basic.func(*args): self.__class__(*args), no assumptions are passed on
func(n, args) == Basic_new(n.cls, args, NoTags)

\* Basic._hashable_content (Atom subclasses return their datum)
AtomContent(n) == <<RawStr(n.name)>>

hashable_content(n) == IF is_Atom(n) THEN AtomContent(n) ELSE n.args

(***************************************************************************)
(* Basic.__eq__                                                            *)
(***************************************************************************)
RECURSIVE Basic_eq(_, _)

RECURSIVE UnwrapPow(_)

\* while isinstance(self, C.Pow) and self.exp == 1: self = self.base
\* (self.exp == 1 is exp.__eq__(1); the int 1 is sympified to S.One)
UnwrapPow(n) ==
    IF IsPow(n) /\ Basic_eq(PowExp(n), One) THEN UnwrapPow(PowBase(n)) ELSE n

\* l == r for two items of content tuples: a node decides with __eq__, raw
\* values compare by value; a node against a raw str or frozenset ends in
\* SympifyError, which __eq__ turns into False.
ItemEq(l, r) ==
    IF IsBasic(l) /\ IsBasic(r) THEN Basic_eq(l, r)
    ELSE IF ~IsBasic(l) /\ ~IsBasic(r) THEN l = r
    ELSE FALSE

\* st == ot for two tuples
TupleEq(st, ot) ==
    /\ Len(st) = Len(ot)
    /\ \A i \in 1..Len(st) : ItemEq(st[i], ot[i])

\* the tail of __eq__, reached with type(self) == type(other)
SameTypeEq(self, other) ==
    /\ TupleEq(hashable_content(self), hashable_content(other))
    /\ assume_type_keys(self) = assume_type_keys(other)

Basic_eq(self, other) ==
    IF self.cls # other.cls
    THEN LET s == UnwrapPow(self)
             o == UnwrapPow(other)
         IN IF s.cls # o.cls THEN FALSE ELSE SameTypeEq(s, o)
    ELSE SameTypeEq(self, other)

(***************************************************************************)
(* Basic.__ne__                                                            *)
(***************************************************************************)
\* a != b: with different types other is sympified (a raw str or frozenset
\* ends in SympifyError, which gives True) and the types are compared once
\* more; the tail is (st != ot) or the assumption keys differ, where the
\* tuples are compared item by item with ==
Basic_ne(self, other) ==
    IF self.cls # other.cls
    THEN TRUE
    ELSE \/ ~TupleEq(hashable_content(self), hashable_content(other))
         \/ assume_type_keys(self) # assume_type_keys(other)

(***************************************************************************)
(* Basic.__hash__                                                          *)
(* hash() of a tuple is a function of the hashes of its elements; a hash   *)
(* value is kept as the tuple of what went into it, so two hash values are *)
(* equal exactly when the tuples handed to hash() have equal hashes        *)
(* element by element (no accidental collisions).                          *)
(***************************************************************************)
\* sorted() over tag names
TagKeyOrder == <<"commutative", "positive">>

\* for k in sorted(self._assume_type_keys): a.append((k, kv[k]))
SortedTags(n) ==
    LET ks == SelectSeq(TagKeyOrder, LAMBDA k : k \in assume_type_keys(n))
    IN [i \in 1..Len(ks) |-> CHOOSE p \in n.tags : p[1] = ks[i]]

\* hash() of a raw value
RawHash(x) == [cls |-> x.cls, raw |-> x.name, els |-> x.elems, parts |-> <<>>, tg |-> <<>>]

RECURSIVE Basic_hash(_)

ItemHash(x) == IF IsBasic(x) THEN Basic_hash(x) ELSE RawHash(x)

\* h = (type(self).__name__,) + self._hashable_content(), plus the sorted
\* (key, value) pairs when _assume_type_keys is not None
Basic_hash(n) ==
    LET hc == hashable_content(n)
    IN [cls   |-> n.cls,
        raw   |-> 0,
        els   |-> {},
        parts |-> [i \in 1..Len(hc) |-> ItemHash(hc[i])],
        tg    |-> IF assume_type_keys(n) # {} THEN SortedTags(n) ELSE <<>>]

(***************************************************************************)
(* Basic.compare                                                           *)
(***************************************************************************)
\* cmp() on two integers
Cmp(x, y) == IF x < y THEN -1 ELSE IF x > y THEN 1 ELSE 0

\* position of an element in a sequence without repetitions (0 if absent)
IndexOf(seq, x) ==
    IF \E i \in 1..Len(seq) : seq[i] = x
    THEN CHOOSE i \in 1..Len(seq) : seq[i] = x
    ELSE 0

\* cmp(self.__class__, other.__class__): the metaclass orders classes by a
\* fixed rank list, then by name
ClassOrder ==
    <<"Integer", "Symbol", "Dummy", "Wild", "Pow", "Mul", "Add", "Basic", "FiniteSet",
      "cos", "sin">>

ClassCmp(c1, c2) == Cmp(IndexOf(ClassOrder, c1), IndexOf(ClassOrder, c2))

RECURSIVE Basic_compare(_, _)

\* the body of the loop over zip(st, ot)
ItemCompare(l, r) ==
    IF IsBasic(l) THEN Basic_compare(l, r)
    ELSE IF IsFrozenset(l) THEN 0
    ELSE Cmp(l.name, r.name)

\* for l, r in zip(st, ot): ... if c: return c;  return 0
RECURSIVE CompareFrom(_, _, _)

CompareFrom(st, ot, i) ==
    IF i > Len(st) \/ i > Len(ot) THEN 0
    ELSE LET ci == ItemCompare(st[i], ot[i])
         IN IF ci # 0 THEN ci ELSE CompareFrom(st, ot, i + 1)

\* a compare that goes to the items without looking at the two lengths
ArityCmp_Skipped(st, ot) == 0

\* c = cmp(len(st), len(ot))
ArityCmp(st, ot) == Cmp(Len(st), Len(ot))

\* "if self is other: return 0" is not modelled apart: for one object the
\* code below returns 0 as well.
Basic_compare(self, other) ==
    LET cc == ClassCmp(self.cls, other.cls)
        st == hashable_content(self)
        ot == hashable_content(other)
        cl == ArityCmp(st, ot)
    IN IF cc # 0 THEN cc
       ELSE IF cl # 0 THEN cl
       ELSE CompareFrom(st, ot, 1)

(***************************************************************************)
(* Basic.sort_key, Atom.sort_key                                           *)
(* A key is (class_key, (n, items), S.One.sort_key(), S.One); the two last *)
(* components are the same for every node and are left out. A key is kept  *)
(* as [rank, sub, cname, n, items, raw]: class_key() is (rank, sub, cname).*)
(***************************************************************************)
\* alphabetical order of the class names (cmp on the __name__ strings)
NameOrder ==
    <<"Add", "Basic", "Dummy", "FiniteSet", "Integer", "Mul", "Pow", "Symbol", "Wild",
      "cos", "sin">>

\* inner_key(arg) for an argument that is no Basic: the raw value itself
RawKey(x) == [rank |-> 0, sub |-> 0, cname |-> x.cls, n |-> 0, items |-> <<>>,
              raw |-> x.name, els |-> x.elems]

\* Atom.sort_key: class_key() = (2, 0, name), args part (1, (str(self),))
Atom_sort_key(n) ==
    [rank |-> 2, sub |-> 0, cname |-> n.cls, n |-> 1,
     items |-> <<RawKey(RawStr(n.name))>>, raw |-> 0, els |-> {}]

RECURSIVE sort_key(_)

inner_key(arg) == IF IsBasic(arg) THEN sort_key(arg) ELSE RawKey(arg)

\* Basic.sort_key: class_key() = (5, 0, name), args part
\* (len(self.args), tuple(inner_key(arg) for arg in self.args))
Basic_sort_key(n) ==
    [rank |-> 5, sub |-> 0, cname |-> n.cls, n |-> Len(n.args),
     items |-> [i \in 1..Len(n.args) |-> inner_key(n.args[i])], raw |-> 0, els |-> {}]

sort_key(n) == IF is_Atom(n) THEN Atom_sort_key(n) ELSE Basic_sort_key(n)

\* Python's ordering of two keys (tuples compare lexicographically, the
\* first differing position decides, a proper prefix is smaller)
RECURSIVE KeyCmp(_, _)

RECURSIVE KeysCmpFrom(_, _, _)

KeysCmpFrom(s, t, i) ==
    IF i > Len(s) \/ i > Len(t) THEN Cmp(Len(s), Len(t))
    ELSE LET ci == KeyCmp(s[i], t[i])
         IN IF ci # 0 THEN ci ELSE KeysCmpFrom(s, t, i + 1)

KeyCmp(k1, k2) ==
    IF k1.rank # k2.rank THEN Cmp(k1.rank, k2.rank)
    ELSE IF k1.sub # k2.sub THEN Cmp(k1.sub, k2.sub)
    ELSE IF k1.cname # k2.cname
         THEN Cmp(IndexOf(NameOrder, k1.cname), IndexOf(NameOrder, k2.cname))
    ELSE IF k1.raw # k2.raw THEN Cmp(k1.raw, k2.raw)
    ELSE IF k1.n # k2.n THEN Cmp(k1.n, k2.n)
    ELSE KeysCmpFrom(k1.items, k2.items, 1)

(***************************************************************************)
(* _aresame                                                                *)
(***************************************************************************)
RECURSIVE Preorder(_)

RECURSIVE PreorderFrom(_, _)

\* preorder_traversal(n): the node, then the traversal of each argument
PreorderFrom(args, i) ==
    IF i > Len(args) THEN <<>>
    ELSE Preorder(args[i]) \o PreorderFrom(args, i + 1)

Preorder(n) == <<n>> \o PreorderFrom(n.args, 1)

\* Symbol.assumptions0: the assumptions of the symbol, with their values
assumptions0(n) == n.tags

MinOf(x, y) == IF x < y THEN x ELSE y

\* _aresame(a, b)
aresame(x, y) ==
    IF Basic_compare(x, y) = 0 /\ is_Symbol(x) /\ is_Symbol(y)
    THEN assumptions0(x) = assumptions0(y)
    ELSE LET px == Preorder(x)
             py == Preorder(y)
         IN \A i \in 1..MinOf(Len(px), Len(py)) :
                Basic_eq(px[i], py[i]) /\ px[i].cls = py[i].cls

(***************************************************************************)
(* Basic._subs, Basic._eval_subs                                           *)
(* A result is [v, same, visited]: the value returned, whether it is the   *)
(* very object the method was called on (what "arg is not args[i]" asks),  *)
(* and the nodes the method was called on.  A hook gives such a result, or *)
(* None.  Basic has the stub; the hooks of Sum and Add stand for the       *)
(* classes that override it, as the notes in the docstring describe them.  *)
(* @cacheit only memoizes the pure result and is not modelled.             *)
(***************************************************************************)
\* Python's None
None == [cls |-> "NoneType", name |-> 0, args |-> <<>>, tags |-> {}, elems |-> {}]

\* Basic._eval_subs: the stub declines
Basic_eval_subs(self, old, new) == None

\* the hook of a class with bound variables (a Sum with the arguments
\* function, variable): a substitution for the variable leaves the
\* expression as it is, anything else is declined
Sum_eval_subs(self, old, new) ==
    IF Len(self.args) = 2 /\ aresame(old, self.args[2])
    THEN [v |-> self, same |-> TRUE, visited |-> {self}]
    ELSE None

\* the hook of Add: when old is an Add whose terms are some of the terms
\* of self, these are taken out and new is added; anything else is declined
Add_eval_subs(self, old, new) ==
    IF /\ old.cls = "Add"
       /\ Len(old.args) < Len(self.args)
       /\ \A i \in 1..Len(old.args) : \E k \in 1..Len(self.args) :
             aresame(old.args[i], self.args[k])
    THEN LET rest == SelectSeq(self.args,
                         LAMBDA x : \A i \in 1..Len(old.args) : ~aresame(old.args[i], x))
         IN [v |-> Basic_new("Add", Append(rest, new), NoTags), same |-> FALSE,
             visited |-> {self}]
    ELSE None

\* self._eval_subs(old, new): the method of the class of self
eval_subs(self, old, new) ==
    IF self.cls = "Sum" THEN Sum_eval_subs(self, old, new)
    ELSE IF self.cls = "Add" THEN Add_eval_subs(self, old, new)
    ELSE Basic_eval_subs(self, old, new)

RECURSIVE Basic_subs(_, _, _)

\* a fallback that builds a new node whether an argument changed or not
fallback_Rebuilding(self, old, new) ==
    LET args == self.args
        rs == [i \in 1..Len(args) |->
                 IF IsBasic(args[i]) THEN Basic_subs(args[i], old, new)
                 ELSE [v |-> args[i], same |-> TRUE, visited |-> {}]]
    IN [v |-> func(self, [i \in 1..Len(args) |-> rs[i].v]), same |-> FALSE,
        visited |-> {self} \cup UNION {rs[i].visited : i \in 1..Len(args)}]

\* fallback(self, old, new) inside _subs; an argument without _eval_subs
\* (no Basic) is skipped
fallback(self, old, new) ==
    LET args == self.args
        rs == [i \in 1..Len(args) |->
                 IF IsBasic(args[i]) THEN Basic_subs(args[i], old, new)
                 ELSE [v |-> args[i], same |-> TRUE, visited |-> {}]]
        hit == \E i \in 1..Len(args) : ~rs[i].same
        seen == {self} \cup UNION {rs[i].visited : i \in 1..Len(args)}
    IN IF hit
       THEN [v |-> func(self, [i \in 1..Len(args) |-> rs[i].v]), same |-> FALSE,
             visited |-> seen]
       ELSE [v |-> self, same |-> TRUE, visited |-> seen]

\* _subs(self, old, new): the caller's new is another object than self.
\* visited is the set of the nodes _subs was called on.
Basic_subs(self, old, new) ==
    IF aresame(self, old) THEN [v |-> new, same |-> FALSE, visited |-> {self}]
    ELSE LET rv == eval_subs(self, old, new)
         IN IF rv = None THEN fallback(self, old, new)
            ELSE rv

(***************************************************************************)
(* Basic.xreplace, Atom.xreplace                                           *)
(* A rule is a dict, kept as a set of <<key, value>> with distinct keys;   *)
(* a key is found by its hash and then by ==.                              *)
(***************************************************************************)
\* the entries of rule that the lookup of n finds
RuleHits(rule, n) ==
    {e \in rule : Basic_hash(e[1]) = Basic_hash(n) /\ Basic_eq(e[1], n)}

\* self in rule
InRule(rule, n) == RuleHits(rule, n) # {}

\* rule[self]
RuleGet(rule, n) == (CHOOSE e \in RuleHits(rule, n) : TRUE)[2]

RECURSIVE xreplace(_, _)

\* Atom.xreplace: rule.get(self, self)
Atom_xreplace(self, rule) == IF InRule(rule, self) THEN RuleGet(rule, self) ELSE self

\* an xreplace that rewrites the arguments first and looks the node up last
Basic_xreplace_ChildrenFirst(self, rule) ==
    IF rule = {} THEN self
    ELSE LET args == [i \in 1..Len(self.args) |-> xreplace(self.args[i], rule)]
             n2 == IF ~TupleEq(args, self.args) THEN func(self, args) ELSE self
         IN IF InRule(rule, n2) THEN RuleGet(rule, n2) ELSE n2

\* an xreplace that rebuilds every node it passes
Basic_xreplace_Rebuilding(self, rule) ==
    IF InRule(rule, self) THEN RuleGet(rule, self)
    ELSE func(self, [i \in 1..Len(self.args) |-> xreplace(self.args[i], rule)])

\* Basic.xreplace
Basic_xreplace(self, rule) ==
    IF InRule(rule, self) THEN RuleGet(rule, self)
    ELSE IF rule # {}
         THEN LET args == [i \in 1..Len(self.args) |-> xreplace(self.args[i], rule)]
              IN IF ~TupleEq(args, self.args) THEN func(self, args) ELSE self
         ELSE self

xreplace(n, rule) == IF is_Atom(n) THEN Atom_xreplace(n, rule) ELSE Basic_xreplace(n, rule)

\* the call ends in "return self" (the default of rule.get for an Atom): the
\* object returned is the receiver, not rule[self] and not a rebuilt node
xreplace_returns_self(n, rule) ==
    /\ ~InRule(rule, n)
    /\ \/ is_Atom(n)
       \/ rule = {}
       \/ TupleEq([i \in 1..Len(n.args) |-> xreplace(n.args[i], rule)], n.args)

(***************************************************************************)
(* Basic.matches, Atom.matches, Basic.match                                *)
(* A binding map is a dict from wildcards to nodes, kept like a rule.  The *)
(* result of matches is [ok, d]: ok is FALSE for None, otherwise d is the  *)
(* dict that is returned.                                                  *)
(***************************************************************************)
\* the classes and their base classes: isinstance(n, cls)
IsInstance(n, cls) ==
    \/ n.cls = cls
    \/ cls = "Basic"
    \/ cls = "Atom" /\ is_Atom(n)
    \/ cls = "Symbol" /\ is_Symbol(n)

NoMatch == [ok |-> FALSE, d |-> {}]

Matched(d) == [ok |-> TRUE, d |-> d]

\* Atom.matches: repl_dict when self == expr, else None
Atom_matches(self, e, repl_dict) ==
    IF Basic_eq(self, e) THEN Matched(repl_dict) ELSE NoMatch

\* Wild.matches: the wildcard is bound to the node; a binding it has
\* already must agree with the node
Wild_matches(self, e, repl_dict) ==
    IF InRule(repl_dict, self)
    THEN IF Basic_eq(RuleGet(repl_dict, self), e) THEN Matched(repl_dict) ELSE NoMatch
    ELSE Matched(repl_dict \cup {<<self, e>>})

RECURSIVE matches(_, _, _)

RECURSIVE MatchArgs(_, _, _, _)

\* for arg, other_arg in zip(self.args, expr.args): equal children are
\* passed over, else d = arg.xreplace(d).matches(other_arg, d)
MatchArgs(sa, ea, d, i) ==
    IF i > Len(sa) \/ i > Len(ea) THEN Matched(d)
    ELSE IF ItemEq(sa[i], ea[i]) THEN MatchArgs(sa, ea, d, i + 1)
    ELSE LET r == matches(xreplace(sa[i], d), ea[i], d)
         IN IF ~r.ok THEN NoMatch ELSE MatchArgs(sa, ea, r.d, i + 1)

\* Basic.matches(self, expr, repl_dict): self is the template
Basic_matches(self, e, repl_dict) ==
    IF ~IsInstance(e, self.cls) THEN NoMatch
    ELSE IF Basic_eq(self, e) THEN Matched(repl_dict)
    ELSE IF Len(self.args) # Len(e.args) THEN NoMatch
    ELSE MatchArgs(self.args, e.args, repl_dict, 1)

matches(self, e, repl_dict) ==
    IF self.cls = "Wild" THEN Wild_matches(self, e, repl_dict)
    ELSE IF is_Atom(self) THEN Atom_matches(self, e, repl_dict)
    ELSE Basic_matches(self, e, repl_dict)

\* Basic.match(self, pattern): pattern.matches(self)
match(self, pattern) == matches(pattern, self, {})

(***************************************************************************)
(* Basic.subs                                                              *)
(* The argument is kept as the sequence of (old, new) pairs in the order   *)
(* the container yields them, with the flag unordered for a dict, Dict or  *)
(* set (then the order is the iteration order of dict(sequence)).          *)
(***************************************************************************)
\* a loop that leaves every pair in the sequence
DropSame_Kept(seq) == seq

\* the loop over sequence[i]: a pair with _aresame(so, sn) becomes None and
\* filter(None, sequence) removes it
DropSame(seq) == SelectSeq(seq, LAMBDA pr : ~aresame(pr[1], pr[2]))

RECURSIVE count_ops(_)

RECURSIVE CountOpsFrom(_, _)

CountOpsFrom(args, i) ==
    IF i > Len(args) THEN 0 ELSE count_ops(args[i]) + CountOpsFrom(args, i + 1)

\* o.count_ops(): the number of operations, one for each node that is no atom
count_ops(n) == IF is_Atom(n) THEN 0 ELSE 1 + CountOpsFrom(n.args, 1)

\* ops = o.count_ops(), len(o.args)
OpsOf(o) == <<count_ops(o), Len(o.args)>>

\* an order of the groups with the smallest (count_ops, len(args)) first
OpsBefore_Ascending(k1, k2) ==
    k1[1] < k2[1] \/ (k1[1] = k2[1] /\ k1[2] < k2[2])

\* sorted(d.keys(), reverse=True): the group k1 is taken before the group k2
OpsBefore(k1, k2) ==
    k1[1] > k2[1] \/ (k1[1] = k2[1] /\ k1[2] > k2[2])

\* default_sort_key of a node is its sort_key()
default_sort_key(n) == sort_key(n)

\* default_sort_key of a pair (k, v) orders by the key of k, then of v
PairKeyCmp(p, q) ==
    LET c1 == KeyCmp(default_sort_key(p[1]), default_sort_key(q[1]))
    IN IF c1 # 0 THEN c1
       ELSE KeyCmp(default_sort_key(p[2]), default_sort_key(q[2]))

\* the pair at i is placed before the pair at j: by group, inside a group by
\* the key of the old side; sorted() is stable
NonAtomBefore(seq, i, j) ==
    LET oi == seq[i][1]
        oj == seq[j][1]
        kc == KeyCmp(default_sort_key(oi), default_sort_key(oj))
    IN \/ OpsBefore(OpsOf(oi), OpsOf(oj))
       \/ /\ OpsOf(oi) = OpsOf(oj)
          /\ (kc < 0 \/ (kc = 0 /\ i < j))

\* sorted([(k, v) ...], key=default_sort_key), stable
AtomBefore(seq, i, j) ==
    LET kc == PairKeyCmp(seq[i], seq[j])
    IN kc < 0 \/ (kc = 0 /\ i < j)

\* the "if unordered:" block
SortPairs(seq) ==
    LET n == Len(seq)
        allAtoms == \A i \in 1..n : is_Atom(seq[i][1])
        Before(i, j) == IF allAtoms THEN AtomBefore(seq, i, j)
                        ELSE NonAtomBefore(seq, i, j)
        pos(i) == 1 + Cardinality({j \in 1..n : Before(j, i)})
    IN [k \in 1..n |-> seq[CHOOSE i \in 1..n : pos(i) = k]]

\* a subs that sorts whatever it is given
Normalize_AlwaysSorted(seq, isUnordered) == SortPairs(DropSame(seq))

\* the sequence that is applied
Normalize(seq, isUnordered) ==
    IF isUnordered THEN SortPairs(DropSame(seq)) ELSE DropSame(seq)

\* C.Dummy(): a fresh symbol; the i-th of a call
Dummy(i) == Atom_new("Dummy", i, NoTags)

RECURSIVE SeqLoop(_, _, _)

\* for old, new in sequence: rv = rv._subs(old, new); stop on a non-Basic
SeqLoop(rv, seq, i) ==
    IF i > Len(seq) THEN rv
    ELSE LET r == Basic_subs(rv, seq[i][1], seq[i][2]).v
         IN IF ~IsBasic(r) THEN r ELSE SeqLoop(r, seq, i + 1)

RECURSIVE SimLoop(_, _, _, _)

RECURSIVE SimLoop_Direct(_, _, _, _)

\* a loop that puts the new value in at once instead of the placeholder
SimLoop_Direct(rv, reps, seq, i) ==
    IF i > Len(seq) THEN [rv |-> rv, reps |-> reps]
    ELSE LET r == Basic_subs(rv, seq[i][1], seq[i][2]).v
             rp == reps \cup {<<Dummy(i), seq[i][2]>>}
         IN IF ~IsBasic(r) THEN [rv |-> r, reps |-> rp]
            ELSE SimLoop_Direct(r, rp, seq, i + 1)

\* for old, new in sequence: d = C.Dummy(); rv = rv._subs(old, d);
\* reps[d] = new; stop on a non-Basic. Gives [rv, reps].
SimLoop(rv, reps, seq, i) ==
    IF i > Len(seq) THEN [rv |-> rv, reps |-> reps]
    ELSE LET d == Dummy(i)
             r == Basic_subs(rv, seq[i][1], d).v
             rp == reps \cup {<<d, seq[i][2]>>}
         IN IF ~IsBasic(r) THEN [rv |-> r, reps |-> rp]
            ELSE SimLoop(r, rp, seq, i + 1)

\* subs(self, sequence, simultaneous=...): [rv, order, marked, reps] with
\* the result, the pairs as applied, and for simultaneous=True the tree
\* handed to xreplace and the rule
subs(self, seq, isUnordered, isSimultaneous) ==
    LET order == Normalize(seq, isUnordered)
    IN IF isSimultaneous
       THEN LET m == SimLoop(self, {}, order, 1)
            IN [rv |-> xreplace(m.rv, m.reps), order |-> order,
                marked |-> m.rv, reps |-> m.reps]
       ELSE [rv |-> SeqLoop(self, order, 1), order |-> order,
             marked |-> self, reps |-> {}]

(***************************************************************************)
(* Basic.replace                                                           *)
(* A query or value argument is a Python value [kind, cls, node, fn]: a    *)
(* class (kind "type"), a node (kind "node") or a callable (kind           *)
(* "function", one of a few named lambdas).                                *)
(***************************************************************************)
QType(cls) == [kind |-> "type", cls |-> cls, node |-> None, fn |-> ""]

QNode(n) == [kind |-> "node", cls |-> "", node |-> n, fn |-> ""]

QFunc(f) == [kind |-> "function", cls |-> "", node |-> None, fn |-> f]

QNone == [kind |-> "none", cls |-> "", node |-> None, fn |-> ""]

\* the predicates given as queries:
\*   lambda expr: expr.is_Symbol,  lambda expr: isinstance(expr, sin)
Predicate(f, e) ==
    IF f = "is_Symbol" THEN is_Symbol(e)
    ELSE IF f = "is_sin" THEN e.cls = "sin"
    ELSE FALSE

\* the callables given as values:  lambda arg: cos(arg),  lambda arg: arg
Call(f, args) ==
    IF f = "cos_of" THEN Basic_new("cos", <<args[1]>>, NoTags)
    ELSE args[1]

\* the items of a dict, in some order
DictItems(d) ==
    LET n == Cardinality(d)
    IN CHOOSE sq \in [1..n -> d] : \A i, j \in 1..n : i # j => sq[i] # sq[j]

\* bool(result) of a dict: an empty dict is false
Truthy(r) == r.ok /\ r.d # {}

\* _query(expr): [truthy, d] with the truth value of the result and, for a
\* template, the binding map
replace_query(q, e) ==
    IF q.kind = "type" THEN [truthy |-> IsInstance(e, q.cls), d |-> {}]
    ELSE IF q.kind = "node"
    THEN LET r == match(e, q.node) IN [truthy |-> Truthy(r), d |-> r.d]
    ELSE [truthy |-> Predicate(q.fn, e), d |-> {}]

\* _value(expr, result)
replace_value(q, v, e, d) ==
    IF q.kind = "type"
    THEN IF v.kind = "type" THEN Basic_new(v.cls, e.args, NoTags) ELSE Call(v.fn, e.args)
    ELSE IF q.kind = "node"
    THEN IF v.kind = "node" THEN subs(v.node, DictItems(d), TRUE, FALSE).rv
         ELSE Call(v.fn, <<(CHOOSE en \in d : TRUE)[2]>>)
    ELSE Call(v.fn, <<e>>)

\* the combinations of query and value that replace accepts
ReplaceAccepts(q, v) ==
    \/ q.kind = "type" /\ v.kind \in {"type", "function"}
    \/ q.kind = "node" /\ v.kind \in {"node", "function"}
    \/ q.kind = "function" /\ v.kind = "function"

RECURSIVE rec_replace(_, _, _, _)

RECURSIVE rec_replace_Requery(_, _, _, _)

\* a traversal that puts the query to the rebuilt parent as well
rec_replace_Requery(q, v, e, path) ==
    LET rs == [i \in 1..Len(e.args) |-> rec_replace_Requery(q, v, e.args[i], Append(path, i))]
        construct == \E i \in 1..Len(e.args) : rs[i].hit
        args == [i \in 1..Len(e.args) |-> IF rs[i].hit THEN rs[i].res ELSE e.args[i]]
        below == UNION {rs[i].asked : i \in 1..Len(e.args)}
        mapped == UNION {rs[i].mapping : i \in 1..Len(e.args)}
        cur == IF construct THEN Basic_new(e.cls, args, NoTags) ELSE e
        r == replace_query(q, cur)
    IN IF r.truthy
       THEN LET val == replace_value(q, v, cur, r.d)
            IN [hit |-> TRUE, res |-> val, asked |-> below \cup {path},
                mapping |-> mapped \cup {<<cur, val>>}]
       ELSE [hit |-> construct, res |-> IF construct THEN cur ELSE None,
             asked |-> below \cup {path}, mapping |-> mapped]

\* rec_replace(expr), for the node at position path of the receiver:
\* [hit, res, asked, mapping] with hit for "the result is not None", the
\* positions the query was put to, and the pairs recorded for map=True
rec_replace(q, v, e, path) ==
    LET rs == [i \in 1..Len(e.args) |-> rec_replace(q, v, e.args[i], Append(path, i))]
        construct == \E i \in 1..Len(e.args) : rs[i].hit
        args == [i \in 1..Len(e.args) |-> IF rs[i].hit THEN rs[i].res ELSE e.args[i]]
        below == UNION {rs[i].asked : i \in 1..Len(e.args)}
        mapped == UNION {rs[i].mapping : i \in 1..Len(e.args)}
    IN IF construct
       THEN [hit |-> TRUE, res |-> Basic_new(e.cls, args, NoTags),
             asked |-> below, mapping |-> mapped]
       ELSE LET r == replace_query(q, e)
            IN IF r.truthy
               THEN LET val == replace_value(q, v, e, r.d)
                    IN [hit |-> TRUE, res |-> val, asked |-> below \cup {path},
                        mapping |-> mapped \cup {<<e, val>>}]
               ELSE [hit |-> FALSE, res |-> None, asked |-> below \cup {path},
                     mapping |-> mapped]

\* "result = rec_replace(self)", self when None, then "result, mapping" when map
replace_rv(self, r, map) ==
    [raised |-> "none",
     rv |-> IF r.hit THEN r.res ELSE self,
     same |-> ~r.hit,
     map |-> map,
     mapping |-> IF map THEN r.mapping ELSE {},
     asked |-> r.asked]

\* replace(self, query, value, map): [raised, rv, same, map, mapping, asked]
replace(self, q, v, map) ==
    IF ~ReplaceAccepts(q, v)
    THEN [raised |-> "TypeError", rv |-> None, same |-> FALSE, map |-> map,
          mapping |-> {}, asked |-> {}]
    ELSE replace_rv(self, rec_replace(q, v, self, <<>>), map)

(***************************************************************************)
(* Basic.find, Basic.count                                                 *)
(***************************************************************************)
\* "q or q == {}" for q = _query(expr)
find_query(q, e) ==
    IF q.kind = "type" THEN IsInstance(e, q.cls)
    ELSE IF q.kind = "node"
    THEN LET r == match(e, q.node) IN Truthy(r) \/ (r.ok /\ r.d = {})
    ELSE Predicate(q.fn, e)

RECURSIVE rec_find(_, _)

RECURSIVE rec_find_args(_, _, _)

RECURSIVE rec_find_SkipMatched(_, _)

RECURSIVE rec_find_args_SkipMatched(_, _, _)

\* a traversal that does not go into the arguments of a node it collected
rec_find_args_SkipMatched(q, args, i) ==
    IF i > Len(args) THEN [results |-> <<>>, visited |-> <<>>]
    ELSE LET r1 == rec_find_SkipMatched(q, args[i])
             r2 == rec_find_args_SkipMatched(q, args, i + 1)
         IN [results |-> r1.results \o r2.results, visited |-> r1.visited \o r2.visited]

rec_find_SkipMatched(q, e) ==
    IF find_query(q, e) THEN [results |-> <<e>>, visited |-> <<e>>]
    ELSE LET below == rec_find_args_SkipMatched(q, e.args, 1)
         IN [results |-> below.results, visited |-> <<e>> \o below.visited]

\* for arg in expr.args: rec_find(arg)
rec_find_args(q, args, i) ==
    IF i > Len(args) THEN [results |-> <<>>, visited |-> <<>>]
    ELSE LET r1 == rec_find(q, args[i])
             r2 == rec_find_args(q, args, i + 1)
         IN [results |-> r1.results \o r2.results, visited |-> r1.visited \o r2.visited]

\* rec_find(expr): what it appends to results, and the nodes it was called
\* on, in the order of the calls
rec_find(q, e) ==
    LET below == rec_find_args(q, e.args, 1)
    IN [results |-> (IF find_query(q, e) THEN <<e>> ELSE <<>>) \o below.results,
        visited |-> <<e>> \o below.visited]

\* the keys of a set or dict built from a list: one for the elements that
\* have the same hash and are ==
SameKey(x, y) == Basic_hash(x) = Basic_hash(y) /\ Basic_eq(x, y)

\* groups: each key with the number of results that fell on it (the key is
\* the first of them)
GroupsOf(results) ==
    LET n == Len(results)
        first == {i \in 1..n : \A j \in 1..(i - 1) : ~SameKey(results[j], results[i])}
    IN {<<results[i], Cardinality({j \in 1..n : SameKey(results[i], results[j])})>> :
          i \in first}

\* find(self, query, group): set(results), or the dict groups as a set of
\* <<node, number>>
find(self, q, group) ==
    LET results == rec_find(q, self).results
    IN IF ~group THEN {g[1] : g \in GroupsOf(results)} ELSE GroupsOf(results)

RECURSIVE SumValues(_)

\* sum(d.values())
SumValues(d) ==
    IF d = {} THEN 0
    ELSE LET g == CHOOSE x \in d : TRUE IN g[2] + SumValues(d \ {g})

\* count(self, query)
count(self, q) == SumValues(find(self, q, TRUE))

(***************************************************************************)
(* Basic.has                                                               *)
(* A pattern is a Python value as for replace: a class or a node.          *)
(***************************************************************************)
\* Basic.is_Add, Basic.is_Mul
is_Add(n) == n.cls = "Add"

is_Mul(n) == n.cls = "Mul"

\* is_commutative: what the assumptions say; a Symbol made with
\* commutative=False is not commutative, a node with arguments is when all
\* its arguments are
RECURSIVE is_commutative(_)

is_commutative(n) ==
    /\ <<"commutative", FALSE>> \notin n.tags
    /\ \A i \in 1..Len(n.args) : is_commutative(n.args[i])

\* _ncsplit(expr): [c, nc] with the set of the commutative arguments and the
\* list of the others
ncsplit(e) ==
    IF is_Add(e) \/ is_Mul(e)
    THEN [c  |-> {e.args[i] : i \in {j \in 1..Len(e.args) : is_commutative(e.args[j])}},
          nc |-> SelectSeq(e.args, LAMBDA x : ~is_commutative(x))]
    ELSE IF is_commutative(e) THEN [c |-> {e}, nc |-> <<>>]
    ELSE [c |-> {}, nc |-> <<e>>]

\* _contains(expr, subexpr, iterative, c, nc)
contains(e, subexpr, iterative, cn) ==
    IF Basic_eq(e, subexpr) THEN TRUE
    ELSE IF ~IsBasic(e) THEN FALSE
    ELSE IF iterative /\ (is_Add(e) \/ is_Mul(e))
    THEN LET sp == ncsplit(e)
         IN /\ (cn.c \cap sp.c) = cn.c
            /\ \/ cn.nc = <<>>
               \/ /\ Len(cn.nc) <= Len(sp.nc)
                  /\ \E i \in 0..(Len(sp.nc) - Len(cn.nc) - 1) :
                        TupleEq(SubSeq(sp.nc, i + 1, i + Len(cn.nc)), cn.nc)
    ELSE FALSE

\* _match(pattern)(expr)
has_match(pattern, e) ==
    IF pattern.kind = "type" THEN IsInstance(e, pattern.cls)
    ELSE LET pn == pattern.node
         IN IF is_Add(pn) \/ is_Mul(pn) THEN contains(e, pn, TRUE, ncsplit(pn))
            ELSE contains(e, pn, FALSE, [c |-> {}, nc |-> <<>>])

RECURSIVE search(_, _)

\* _search(expr, match)
search(e, pattern) ==
    \/ has_match(pattern, e)
    \/ IsBasic(e) /\ \E i \in 1..Len(e.args) : search(e.args[i], pattern)

\* a has that wants every pattern to be found
has_AllPatterns(self, pats) == \A i \in 1..Len(pats) : search(self, pats[i])

\* has(self, *patterns)
has(self, pats) == \E i \in 1..Len(pats) : search(self, pats[i])

(***************************************************************************)
(* Basic.atoms                                                             *)
(* A kind is a Python value as for has: a class, or a node that stands for *)
(* its class (the implicit form).  The result is a Python set; the nodes   *)
(* atoms is run on below are equal only when they are the same record.     *)
(***************************************************************************)
\* t if isinstance(t, type) else type(t)
TypeOf(t) == IF t.kind = "type" THEN t.cls ELSE t.node.cls

\* isinstance(expr, typ), with the implicit forms of the except branch
InstanceOfAny(e, typ) == \E i \in 1..Len(typ) : IsInstance(e, TypeOf(typ[i]))

RECURSIVE atoms_StopAtMatch(_, _)

\* a collection that does not look below a node it has collected
atoms_StopAtMatch(e, typ) ==
    IF IsBasic(e)
    THEN IF is_Atom(e) /\ Len(typ) = 0 THEN {e}
         ELSE IF InstanceOfAny(e, typ) THEN {e}
         ELSE UNION {atoms_StopAtMatch(e.args[i], typ) : i \in 1..Len(e.args)}
    ELSE {}

RECURSIVE atoms(_, _)

\* _atoms(expr, typ); a frozenset among the arguments is iterated, its
\* elements are raw values and give nothing
atoms(e, typ) ==
    IF IsBasic(e)
    THEN IF is_Atom(e) /\ Len(typ) = 0 THEN {e}
         ELSE (IF InstanceOfAny(e, typ) THEN {e} ELSE {})
                  \cup UNION {atoms(e.args[i], typ) : i \in 1..Len(e.args)}
    ELSE {}

(***************************************************************************)
(* The nodes the operations are run on                                     *)
(***************************************************************************)
TagChoices ==
    { NoTags,
      {<<"commutative", TRUE>>},
      {<<"commutative", FALSE>>},
      {<<"positive", TRUE>>, <<"commutative", TRUE>>} }

PowTagChoices == { NoTags, {<<"commutative", TRUE>>} }

IntValues == {1, 2}

PlainAtoms ==
    {Symbol(i) : i \in Names} \cup {Atom_new("Integer", v, NoTags) : v \in IntValues}

Atoms ==
    {Atom_new("Symbol", i, t) : i \in Names, t \in TagChoices} \cup PlainAtoms

PowNodes ==
    {Basic_new("Pow", <<bb, e>>, t) :
        bb \in PlainAtoms \cup {Basic_new("Pow", <<Symbol(1), One>>, NoTags)},
        e \in {Atom_new("Integer", v, NoTags) : v \in IntValues},
        t \in PowTagChoices}

BasicArgs ==
    {<<>>} \cup {<<Symbol(i)>> : i \in Names} \cup {<<Symbol(1), Symbol(i)>> : i \in Names}

BasicNodes == {Basic_new("Basic", args, t) : args \in BasicArgs, t \in TagChoices}

FiniteSetNodes ==
    {Basic_new("FiniteSet", <<RawFrozenset(S)>>, NoTags) : S \in SUBSET Names}

Nodes == Atoms \cup PowNodes \cup BasicNodes \cup FiniteSetNodes

\* all items in args are Basic objects
AllBasicArgs(n) == \A i \in 1..Len(n.args) : IsBasic(n.args[i])

(***************************************************************************)
(* State: the operands a, b, c of a call on nodes, the receiver and the     *)
(* arguments of a subs call (expr, sequence, unordered, simultaneous), the *)
(* argument of xreplace (ruleArg), of match, replace and find (queryArg,   *)
(* valueArg) and of has and atoms (patternArgs), the operation that ran     *)
(* (op) and what it returned (out); the _mhash field of the receiver, and  *)
(* for every thread its position in __hash__ (pc), its local h (hLocal)    *)
(* and the values its calls returned (returned).                           *)
(***************************************************************************)
NoOut == [none |-> TRUE]

Threads == 1..NumThreads

\* obj._mhash = None after __new__, and no __hash__ call under way
NoHashCalls ==
    /\ mhash = None
    /\ pc = [t \in Threads |-> "idle"]
    /\ hLocal = [t \in Threads |-> None]
    /\ returned = [t \in Threads |-> <<>>]

\* the arguments of the calls that are not made in a family of calls
NoSubsArgs ==
    sequence = <<>> /\ unordered = FALSE /\ simultaneous = FALSE

NoQueryArgs ==
    ruleArg = {} /\ queryArg = QNone /\ valueArg = QNone /\ patternArgs = <<>>

InitEq ==
    /\ a \in Nodes
    /\ b \in Nodes
    /\ c \in Nodes
    /\ expr = One /\ NoSubsArgs /\ NoQueryArgs
    /\ op = "input"
    /\ out = NoOut
    /\ NoHashCalls

\* a == b, for the pairs of the three operands
Eq ==
    /\ op = "input"
    /\ op' = "eq"
    /\ out' = [aa |-> Basic_eq(a, a), ab |-> Basic_eq(a, b), ba |-> Basic_eq(b, a),
               bc |-> Basic_eq(b, c), ac |-> Basic_eq(a, c)]
    /\ UNCHANGED inputs

\* hash(a), hash(b)
Hash ==
    /\ op = "input"
    /\ op' = "hash"
    /\ out' = [ha |-> Basic_hash(a), hb |-> Basic_hash(b)]
    /\ UNCHANGED inputs

\* a.compare(b) for the pairs of the three operands
Compare ==
    /\ op = "input"
    /\ op' = "compare"
    /\ out' = [ab |-> Basic_compare(a, b), ba |-> Basic_compare(b, a),
               bc |-> Basic_compare(b, c), ac |-> Basic_compare(a, c)]
    /\ UNCHANGED inputs

\* a.sort_key(), b.sort_key(), c.sort_key()
SortKey ==
    /\ op = "input"
    /\ AllBasicArgs(a) /\ AllBasicArgs(b) /\ AllBasicArgs(c)
    /\ op' = "sort_key"
    /\ out' = [ka |-> sort_key(a), kb |-> sort_key(b), kc |-> sort_key(c)]
    /\ UNCHANGED inputs

\* a.func(*a.args), for a node made by Basic.__new__
Rebuild ==
    /\ op = "input"
    /\ ~is_Atom(a)
    /\ op' = "func"
    /\ out' = [r |-> func(a, ArgsOf(a))]
    /\ UNCHANGED inputs

NextEq == Eq \/ Hash \/ Compare \/ SortKey \/ Rebuild

SpecEq == InitEq /\ [][NextEq]_vars

(***************************************************************************)
(* Calls of subs                                                           *)
(***************************************************************************)
SubsLeaves == {Symbol(i) : i \in Names}

Unary == {Basic_new("Basic", <<l>>, NoTags) : l \in SubsLeaves}

TaggedUnary == {Basic_new("Basic", <<Symbol(1)>>, {<<"commutative", TRUE>>})}

Binary == {Basic_new("Basic", <<l, r>>, NoTags) : l \in SubsLeaves, r \in SubsLeaves}

Nested ==
    {Basic_new("Basic", <<u>>, NoTags) : u \in Unary}
    \cup {Basic_new("Basic", <<u, l>>, NoTags) : u \in Unary, l \in SubsLeaves}

SubsExprs == SubsLeaves \cup Unary \cup TaggedUnary \cup Binary \cup Nested

Olds == SubsLeaves \cup Unary \cup TaggedUnary

News == SubsLeaves \cup Unary

PairSet == Olds \X News

\* a dict has one entry for a key
DistinctOlds(seq) ==
    \A i, j \in 1..Len(seq) : i # j => ~(/\ Basic_hash(seq[i][1]) = Basic_hash(seq[j][1])
                                         /\ Basic_eq(seq[i][1], seq[j][1]))

InitSubs ==
    /\ a = One /\ b = One /\ c = One
    /\ expr \in SubsExprs
    /\ sequence \in {<<p>> : p \in PairSet} \cup {<<p, q>> : p \in PairSet, q \in PairSet}
    /\ unordered \in BOOLEAN
    /\ simultaneous \in BOOLEAN
    /\ unordered => DistinctOlds(sequence)
    /\ NoQueryArgs
    /\ op = "input"
    /\ out = NoOut
    /\ NoHashCalls

\* expr.subs(sequence, simultaneous=simultaneous)
Subs ==
    /\ op = "input"
    /\ sequence # <<>>
    /\ op' = "subs"
    /\ out' = subs(expr, sequence, unordered, simultaneous)
    /\ UNCHANGED inputs

\* expr.subs([(x, y)]).subs([(y, x)]) for the pair (x, y) of the call
RoundTrip ==
    /\ op = "input"
    /\ Len(sequence) = 1 /\ ~unordered /\ ~simultaneous
    /\ op' = "roundtrip"
    /\ out' = LET x == sequence[1][1]
                  y == sequence[1][2]
                  there == subs(expr, <<<<x, y>>>>, FALSE, FALSE).rv
              IN [there |-> there, rv |-> subs(there, <<<<y, x>>>>, FALSE, FALSE).rv]
    /\ UNCHANGED inputs

NextSubs == Subs \/ RoundTrip

SpecSubs == InitSubs /\ [][NextSubs]_vars

(***************************************************************************)
(* The positional arguments of subs                                        *)
(* A positional argument is a Python value [kind, node, items]: a node, an *)
(* int, or a list, dict or set of (old, new) pairs (items, in the order    *)
(* the container yields them).                                             *)
(***************************************************************************)
PyNode(n) == [kind |-> "node", node |-> n, items |-> <<>>]

PyInt == [kind |-> "int", node |-> None, items |-> <<>>]

PyList(seq) == [kind |-> "list", node |-> None, items |-> seq]

PyDict(seq) == [kind |-> "dict", node |-> None, items |-> seq]

PySet(seq) == [kind |-> "set", node |-> None, items |-> seq]

\* compatibility.iterable: iter(i) works; not so for an int or a node
iterable(v) == v.kind \in {"list", "dict", "set"}

\* raise ValueError(...): nothing was applied
Raised(self, args) ==
    [raised |-> "ValueError", args |-> args, rv |-> None, order |-> <<>>]

\* the call went on to the pairs
Returned(args, r) ==
    [raised |-> "none", args |-> args, rv |-> r.rv, order |-> r.order]

\* a subs that takes whatever it is given and applies no pair when it
\* cannot find any
subs_args_Unchecked(self, args, isSimultaneous) ==
    IF Len(args) = 2
    THEN Returned(args, subs(self, << <<args[1].node, args[2].node>> >>, FALSE, isSimultaneous))
    ELSE IF Len(args) = 1
    THEN Returned(args, subs(self, args[1].items, args[1].kind \in {"set", "dict"},
                             isSimultaneous))
    ELSE Returned(args, subs(self, <<>>, FALSE, isSimultaneous))

\* subs(self, *args, **kwargs): the shape of args decides the sequence and
\* the flag unordered, then the pairs are applied
subs_args(self, args, isSimultaneous) ==
    IF Len(args) = 1
    THEN LET sq == args[1]
         IN IF sq.kind = "set"
            THEN Returned(args, subs(self, sq.items, TRUE, isSimultaneous))
            ELSE IF sq.kind = "dict"
            THEN Returned(args, subs(self, sq.items, TRUE, isSimultaneous))
            ELSE IF ~iterable(sq) THEN Raised(self, args)
            ELSE Returned(args, subs(self, sq.items, FALSE, isSimultaneous))
    ELSE IF Len(args) = 2
    THEN Returned(args, subs(self, << <<args[1].node, args[2].node>> >>, FALSE, isSimultaneous))
    ELSE Raised(self, args)

CallPairs == SubsLeaves \X News

\* the argument tuples a call is tried with, made of the pairs of sequence
ArgShapes(seq, isUnordered) ==
    LET x == PyNode(seq[1][1])
        y == PyNode(seq[1][2])
    IN { <<>>, <<PyInt>>, <<x>>, <<x, y>>, <<x, y, x>>,
         <<IF isUnordered THEN PyDict(seq) ELSE PyList(seq)>>,
         <<IF isUnordered THEN PySet(seq) ELSE PyList(seq)>> }

InitCall ==
    /\ a = One /\ b = One /\ c = One
    /\ expr \in SubsLeaves \cup Unary \cup TaggedUnary
    /\ sequence \in {<<p>> : p \in CallPairs} \cup {<<p, q>> : p \in CallPairs, q \in CallPairs}
    /\ unordered \in BOOLEAN
    /\ simultaneous \in BOOLEAN
    /\ unordered => DistinctOlds(sequence)
    /\ NoQueryArgs
    /\ op = "input"
    /\ out = NoOut
    /\ NoHashCalls

\* expr.subs(*args, simultaneous=simultaneous)
SubsArgs ==
    /\ op = "input"
    /\ sequence # <<>>
    /\ \E args \in ArgShapes(sequence, unordered) :
          out' = subs_args(expr, args, simultaneous)
    /\ op' = "subs_args"
    /\ UNCHANGED inputs

NextCall == SubsArgs

SpecCall == InitCall /\ [][NextCall]_vars

(***************************************************************************)
(* Calls of xreplace                                                       *)
(***************************************************************************)
XrLeaves ==
    SubsLeaves \cup {Atom_new("Symbol", 1, {<<"commutative", TRUE>>}),
                     Atom_new("Symbol", 1, {<<"commutative", FALSE>>})}

XrUnary == {Basic_new("Basic", <<l>>, NoTags) : l \in XrLeaves}

XrExprs == XrLeaves \cup XrUnary \cup TaggedUnary \cup Binary \cup Nested

XrKeys == XrLeaves \cup Unary

XrVals == SubsLeaves \cup Unary

\* two keys that a dict keeps apart
DistinctKeys(k1, k2) == ~(Basic_hash(k1) = Basic_hash(k2) /\ Basic_eq(k1, k2))

XrEntries == XrKeys \X XrVals

\* the dicts with at most two entries: a dict has one entry for a key
XrRules ==
    {{}} \cup {{e} : e \in XrEntries}
         \cup {{pr[1], pr[2]} :
                  pr \in {q \in XrEntries \X XrEntries : DistinctKeys(q[1][1], q[2][1])}}

InitXr ==
    /\ a = One /\ b = One /\ c = One
    /\ expr \in XrExprs
    /\ NoSubsArgs
    /\ ruleArg \in XrRules
    /\ queryArg = QNone /\ valueArg = QNone /\ patternArgs = <<>>
    /\ op = "input"
    /\ out = NoOut
    /\ NoHashCalls

\* expr.xreplace(rule)
Xreplace ==
    /\ op = "input"
    /\ op' = "xreplace"
    /\ out' = [rv |-> xreplace(expr, ruleArg),
               same |-> xreplace_returns_self(expr, ruleArg)]
    /\ UNCHANGED inputs

NextXr == Xreplace

SpecXr == InitXr /\ [][NextXr]_vars

(***************************************************************************)
(* Calls of match                                                          *)
(***************************************************************************)
\* Wild(name)
Wild(i) == Atom_new("Wild", i, NoTags)

Wilds == {Wild(i) : i \in 1..NumWilds}

\* sin(x), cos(x): applications of a function class
Fn(cls, x) == Basic_new(cls, <<x>>, NoTags)

MChildren ==
    SubsLeaves \cup TaggedUnary
        \cup {Basic_new("Basic", <<Symbol(1)>>, NoTags), Fn("sin", Symbol(1))}

MExprs ==
    SubsLeaves \cup {Atom_new("Symbol", 1, {<<"commutative", TRUE>>})}
        \cup {Fn("sin", l) : l \in SubsLeaves}
        \cup Unary \cup TaggedUnary
        \cup {Basic_new("Basic", <<c1, c2>>, NoTags) : c1 \in MChildren, c2 \in MChildren}

MAtoms == SubsLeaves \cup Wilds

MParts ==
    MAtoms \cup {Fn("sin", w) : w \in Wilds}
           \cup {Basic_new("Basic", <<w>>, NoTags) : w \in Wilds}

MPatterns ==
    MAtoms \cup {Fn("sin", t) : t \in MAtoms}
           \cup {Basic_new("Basic", <<t>>, NoTags) : t \in MAtoms}
           \cup {Basic_new("Basic", <<t1, t2>>, NoTags) : t1 \in MParts, t2 \in MParts}

InitMatch ==
    /\ a = One /\ b = One /\ c = One
    /\ expr \in MExprs
    /\ NoSubsArgs
    /\ queryArg \in {QNode(t) : t \in MPatterns}
    /\ ruleArg = {} /\ valueArg = QNone /\ patternArgs = <<>>
    /\ op = "input"
    /\ out = NoOut
    /\ NoHashCalls

\* d = expr.match(pattern), and pattern.xreplace(d) when d is not None
Match ==
    /\ op = "input"
    /\ op' = "match"
    /\ out' = LET r == match(expr, queryArg.node)
              IN [ok |-> r.ok, d |-> r.d,
                  back |-> IF r.ok THEN xreplace(queryArg.node, r.d) ELSE None]
    /\ UNCHANGED inputs

NextMatch == Match

SpecMatch == InitMatch /\ [][NextMatch]_vars

(***************************************************************************)
(* Calls of replace                                                        *)
(***************************************************************************)
RExprs ==
    SubsLeaves \cup Binary
        \cup {Fn("sin", l) : l \in SubsLeaves}
        \cup {Fn("cos", l) : l \in SubsLeaves}
        \cup {Fn("sin", Fn("sin", l)) : l \in SubsLeaves}
        \cup {Fn("cos", Fn("sin", l)) : l \in SubsLeaves}
        \cup {Basic_new("Basic", <<Fn("sin", l1), l2>>, NoTags) :
                 l1 \in SubsLeaves, l2 \in SubsLeaves}
        \cup {Basic_new("sin", <<Symbol(1)>>, {<<"commutative", TRUE>>}),
              Basic_new("Basic", <<Fn("sin", Symbol(1))>>, {<<"commutative", TRUE>>})}

\* query and value: a class with a class or a callable
TypeCalls ==
    {<<QType("sin"), QType("cos")>>, <<QType("cos"), QType("sin")>>,
     <<QType("sin"), QFunc("cos_of")>>, <<QType("sin"), QFunc("first")>>}

\* a template with a template or a callable
PatternCalls ==
    {<<QNode(Fn("sin", w)), QNode(Fn("cos", w))>> : w \in Wilds}
        \cup {<<QNode(w), QNode(Fn("cos", w))>> : w \in Wilds}
        \cup {<<QNode(Fn("sin", l)), QNode(Fn("cos", l))>> : l \in SubsLeaves}
        \cup {<<QNode(l), QNode(Symbol(1))>> : l \in SubsLeaves}
        \cup {<<QNode(Basic_new("Basic", <<Wild(1), Wild(2)>>, NoTags)),
                QNode(Basic_new("Basic", <<Wild(2), Wild(1)>>, NoTags))>>,
              <<QNode(Fn("sin", Wild(1))), QFunc("cos_of")>>}

\* a predicate with a callable
PredicateCalls ==
    {<<QFunc("is_Symbol"), QFunc("cos_of")>>, <<QFunc("is_sin"), QFunc("cos_of")>>,
     <<QFunc("is_sin"), QFunc("first")>>}

\* combinations that replace refuses
RefusedCalls ==
    {<<QType("sin"), QNode(Symbol(1))>>, <<QNode(Symbol(1)), QType("cos")>>,
     <<QFunc("is_sin"), QNode(Symbol(1))>>, <<QNone, QFunc("first")>>}

RCalls == TypeCalls \cup PatternCalls \cup PredicateCalls \cup RefusedCalls

InitReplace ==
    /\ a = One /\ b = One /\ c = One
    /\ expr \in RExprs
    /\ NoSubsArgs
    /\ \E qv \in RCalls : queryArg = qv[1] /\ valueArg = qv[2]
    /\ ruleArg = {} /\ patternArgs = <<>>
    /\ op = "input"
    /\ out = NoOut
    /\ NoHashCalls

\* expr.replace(query, value, map=map)
Replace ==
    /\ op = "input"
    /\ op' = "replace"
    /\ \E map \in BOOLEAN : out' = replace(expr, queryArg, valueArg, map)
    /\ UNCHANGED inputs

NextReplace == Replace

SpecReplace == InitReplace /\ [][NextReplace]_vars

(***************************************************************************)
(* Calls of find and count                                                 *)
(***************************************************************************)
FExprs ==
    RExprs \cup {Basic_new("Basic", <<l, Symbol(1)>>, NoTags) : l \in XrLeaves}
           \cup {Basic_new("Basic", <<Atom_new("Symbol", 1, {<<"commutative", TRUE>>}),
                                      Atom_new("Symbol", 1, {<<"commutative", FALSE>>})>>,
                           NoTags)}

FQueries ==
    {QType("sin"), QType("Symbol"), QFunc("is_Symbol"), QFunc("is_sin")}
        \cup {QNode(w) : w \in Wilds}
        \cup {QNode(Fn("sin", w)) : w \in Wilds}
        \cup {QNode(l) : l \in SubsLeaves}
        \cup {QNode(Fn("sin", l)) : l \in SubsLeaves}

InitFind ==
    /\ a = One /\ b = One /\ c = One
    /\ expr \in FExprs
    /\ NoSubsArgs
    /\ queryArg \in FQueries
    /\ ruleArg = {} /\ valueArg = QNone /\ patternArgs = <<>>
    /\ op = "input"
    /\ out = NoOut
    /\ NoHashCalls

\* expr.find(query), expr.find(query, group=True)
Find ==
    /\ op = "input"
    /\ op' = "find"
    /\ out' = [set |-> find(expr, queryArg, FALSE),
               groups |-> find(expr, queryArg, TRUE),
               visited |-> rec_find(queryArg, expr).visited]
    /\ UNCHANGED inputs

\* expr.count(query)
Count ==
    /\ op = "input"
    /\ op' = "count"
    /\ out' = [count |-> count(expr, queryArg)]
    /\ UNCHANGED inputs

NextFind == Find \/ Count

SpecFind == InitFind /\ [][NextFind]_vars

(***************************************************************************)
(* Calls of has                                                            *)
(***************************************************************************)
\* Symbol(name, commutative=False)
NcSymbol(i) == Atom_new("Symbol", i, {<<"commutative", FALSE>>})

MulNodes ==
    {Basic_new("Mul", <<Symbol(1), NcSymbol(1), NcSymbol(2)>>, NoTags),
     Basic_new("Mul", <<Symbol(1), Symbol(2)>>, NoTags),
     Basic_new("Mul", <<NcSymbol(1), NcSymbol(2)>>, NoTags),
     Basic_new("Mul", <<Symbol(1), NcSymbol(1)>>, NoTags)}

\* an Add with the arguments of the first Mul
AddNodes == {Basic_new("Add", <<Symbol(1), NcSymbol(1), NcSymbol(2)>>, NoTags)}

HExprs ==
    SubsLeaves \cup Binary \cup MulNodes \cup AddNodes
        \cup {Fn("sin", l) : l \in SubsLeaves}
        \cup {Fn("sin", m) : m \in MulNodes}
        \cup {Basic_new("Basic", <<Fn("sin", l1), l2>>, NoTags) :
                 l1 \in SubsLeaves, l2 \in SubsLeaves}

HPatterns ==
    {QType("sin"), QType("Symbol"), QType("Mul")}
        \cup {QNode(l) : l \in SubsLeaves}
        \cup {QNode(Fn("sin", Symbol(1))), QNode(NcSymbol(1))}
        \cup {QNode(m) : m \in MulNodes}

InitHas ==
    /\ a = One /\ b = One /\ c = One
    /\ expr \in HExprs
    /\ NoSubsArgs
    /\ patternArgs \in {<<>>} \cup {<<p>> : p \in HPatterns}
                        \cup {<<p, q>> : p \in HPatterns, q \in HPatterns}
    /\ ruleArg = {} /\ queryArg = QNone /\ valueArg = QNone
    /\ op = "input"
    /\ out = NoOut
    /\ NoHashCalls

\* expr.has(*patterns), and expr.has(p) for each p of patterns
Has ==
    /\ op = "input"
    /\ op' = "has"
    /\ out' = [all |-> has(expr, patternArgs),
               each |-> [i \in 1..Len(patternArgs) |-> has(expr, <<patternArgs[i]>>)]]
    /\ UNCHANGED inputs

NextHas == Has

SpecHas == InitHas /\ [][NextHas]_vars

(***************************************************************************)
(* Calls of atoms                                                          *)
(***************************************************************************)
AExprs ==
    SubsLeaves \cup {One, Basic_new("Basic", <<>>, NoTags)}
        \cup {Fn("sin", l) : l \in SubsLeaves}
        \cup {Fn("sin", Fn("sin", l)) : l \in SubsLeaves}
        \cup {Basic_new("Basic", <<Fn("sin", l1), l2>>, NoTags) :
                 l1 \in SubsLeaves \cup {One}, l2 \in SubsLeaves}
        \cup {Basic_new("Mul", <<One, Fn("sin", Basic_new("Mul", <<l1, l2>>, NoTags))>>, NoTags) :
                 l1 \in SubsLeaves, l2 \in SubsLeaves}
        \cup {Basic_new("Basic", <<Basic_new("Basic", <<>>, NoTags), l>>, NoTags) :
                 l \in SubsLeaves}
        \cup {Basic_new("FiniteSet", <<RawFrozenset(Names)>>, NoTags)}

AKinds ==
    {QType("Symbol"), QType("Integer"), QType("Atom"), QType("sin"),
     QType("Mul"), QType("Basic"),
     QNode(Symbol(1)), QNode(Fn("sin", Symbol(1)))}

InitAtoms ==
    /\ a = One /\ b = One /\ c = One
    /\ expr \in AExprs
    /\ NoSubsArgs
    /\ patternArgs \in {<<>>} \cup {<<k>> : k \in AKinds}
                        \cup {<<k1, k2>> : k1 \in AKinds, k2 \in AKinds}
    /\ ruleArg = {} /\ queryArg = QNone /\ valueArg = QNone
    /\ op = "input"
    /\ out = NoOut
    /\ NoHashCalls

\* expr.atoms(*types)
AtomsCall ==
    /\ op = "input"
    /\ op' = "atoms"
    /\ out' = [set |-> atoms(expr, patternArgs)]
    /\ UNCHANGED inputs

NextAtoms == AtomsCall

SpecAtoms == InitAtoms /\ [][NextAtoms]_vars

(***************************************************************************)
(* Basic.__hash__ with its cache: calls of several threads on one node     *)
(* A thread is idle, or has loaded self._mhash into h ("loaded"), or has   *)
(* computed h and not yet stored it ("computed").  Loading and storing the *)
(* attribute are single steps; the threads are interleaved between them.   *)
(***************************************************************************)
\* a hash that is not the same for every caller
hash_of_PerCaller(self, t) == [Basic_hash(self) EXCEPT !.raw = t]

\* hash(h + tuple(a)) / hash(h) as computed by a caller
hash_of(self, t) == Basic_hash(self)

HashExprs ==
    SubsLeaves \cup Unary \cup TaggedUnary
        \cup {Atom_new("Symbol", 1, {<<"positive", TRUE>>, <<"commutative", TRUE>>}),
              Basic_new("Pow", <<Symbol(1), One>>, NoTags)}

InitHash ==
    /\ a = One /\ b = One /\ c = One
    /\ expr \in HashExprs
    /\ NoSubsArgs /\ NoQueryArgs
    /\ op = "hashing"
    /\ out = NoOut /\ NoHashCalls

\* h = self._mhash
HashLoad(t) ==
    /\ pc[t] = "idle"
    /\ Len(returned[t]) < MaxCalls
    /\ hLocal' = [hLocal EXCEPT ![t] = mhash]
    /\ pc' = [pc EXCEPT ![t] = "loaded"]
    /\ UNCHANGED <<mhash, returned>>

\* if h is None: h = hash(...)
HashCompute(t) ==
    /\ pc[t] = "loaded"
    /\ hLocal[t] = None
    /\ hLocal' = [hLocal EXCEPT ![t] = hash_of(expr, t)]
    /\ pc' = [pc EXCEPT ![t] = "computed"]
    /\ UNCHANGED <<mhash, returned>>

\* self._mhash = h; return h
HashStore(t) ==
    /\ pc[t] = "computed"
    /\ mhash' = hLocal[t]
    /\ returned' = [returned EXCEPT ![t] = Append(@, hLocal[t])]
    /\ pc' = [pc EXCEPT ![t] = "idle"]
    /\ UNCHANGED hLocal

\* else: return h
HashCached(t) ==
    /\ pc[t] = "loaded"
    /\ hLocal[t] # None
    /\ returned' = [returned EXCEPT ![t] = Append(@, hLocal[t])]
    /\ pc' = [pc EXCEPT ![t] = "idle"]
    /\ UNCHANGED <<mhash, hLocal>>

NextHash ==
    /\ \E t \in Threads :
          HashLoad(t) \/ HashCompute(t) \/ HashStore(t) \/ HashCached(t)
    /\ UNCHANGED <<a, b, c, expr, sequence, unordered, simultaneous, ruleArg,
                   queryArg, valueArg, patternArgs, op, out>>

SpecHash == InitHash /\ [][NextHash]_vars

(***************************************************************************)
(* Calls of _subs with one pair                                            *)
(***************************************************************************)
\* Sum(function, variable)
Sum(f, x) == Basic_new("Sum", <<f, x>>, NoTags)

SumNodes ==
    {Sum(f, x) : f \in SubsLeaves \cup Unary, x \in SubsLeaves}

AddTerms ==
    {Basic_new("Add", <<Symbol(1), Symbol(2)>>, NoTags),
     Basic_new("Add", <<Symbol(1), Symbol(2), One>>, NoTags),
     Basic_new("Add", <<Symbol(1), One>>, NoTags)}

OneExprs ==
    SubsLeaves \cup Unary \cup Binary \cup Nested \cup SumNodes \cup AddTerms
        \cup {Basic_new("Basic", <<n, l>>, NoTags) :
                 n \in SumNodes \cup AddTerms, l \in SubsLeaves}
        \cup {Basic_new("Basic", <<RawStr(1), l>>, NoTags) : l \in SubsLeaves}
        \cup {Basic_new("FiniteSet", <<RawFrozenset(Names)>>, NoTags)}

OneOlds ==
    SubsLeaves \cup Unary \cup {Basic_new("Add", <<Symbol(1), Symbol(2)>>, NoTags)}

OneNews == SubsLeaves \cup {One, Basic_new("Basic", <<Symbol(2)>>, NoTags)}

InitSubsOne ==
    /\ a = One /\ b = One /\ c = One
    /\ expr \in OneExprs
    /\ sequence \in {<<<<o, n>>>> : o \in OneOlds, n \in OneNews}
    /\ sequence[1][1] # sequence[1][2]
    /\ unordered = FALSE /\ simultaneous = FALSE
    /\ NoQueryArgs
    /\ op = "input"
    /\ out = NoOut
    /\ NoHashCalls

\* expr._subs(old, new) for the pair (old, new)
SubsOne ==
    /\ op = "input"
    /\ Len(sequence) = 1
    /\ op' = "_subs"
    /\ out' = Basic_subs(expr, sequence[1][1], sequence[1][2])
    /\ UNCHANGED inputs

NextSubsOne == SubsOne

SpecSubsOne == InitSubsOne /\ [][NextSubsOne]_vars

(***************************************************************************)
(* Calls of != and ==                                                      *)
(***************************************************************************)
\* values that _sympify does not convert
RawValues == {RawStr(1), RawFrozenset({})}

InitNe ==
    /\ a \in Nodes
    /\ b \in Nodes \cup RawValues
    /\ c = One
    /\ expr = One /\ NoSubsArgs /\ NoQueryArgs
    /\ op = "input"
    /\ out = NoOut
    /\ NoHashCalls

\* a != b and a == b
Ne ==
    /\ op = "input"
    /\ op' = "ne"
    /\ out' = [ne |-> Basic_ne(a, b), eq |-> Basic_eq(a, b)]
    /\ UNCHANGED inputs

NextNe == Ne

SpecNe == InitNe /\ [][NextNe]_vars

Init ==
    \/ InitEq \/ InitSubs \/ InitCall \/ InitXr \/ InitMatch \/ InitReplace
    \/ InitFind \/ InitHas \/ InitAtoms \/ InitHash \/ InitSubsOne
    \/ InitNe

Next ==
    \/ NextEq \/ NextSubs \/ NextCall \/ NextXr \/ NextMatch \/ NextReplace
    \/ NextFind \/ NextHas \/ NextAtoms \/ NextHash \/ NextSubsOne
    \/ NextNe

Spec == Init /\ [][Next]_vars

(***************************************************************************)
(* Claims on equality, hashing and ordering (checked under SpecEq)         *)
(***************************************************************************)
\* C1: whenever a == b returns True, hash(a) == hash(b).
C1_HashEqConsistent ==
    (op = "hash" /\ Basic_eq(a, b)) => out.ha = out.hb

\* C2: for every node n built by Basic.__new__, n.func(*n.args) == n.
C2_SelfReconstruction ==
    op = "func" => Basic_eq(out.r, a)

\* C3: __eq__ is an equivalence relation: a == a; a == b implies b == a;
\* a == b and b == c imply a == c.
C3_EqEquivalence ==
    op = "eq" =>
        /\ out.aa
        /\ (out.ab => out.ba)
        /\ ((out.ab /\ out.bc) => out.ac)

\* C4: compare returns -1, 0 or 1, a.compare(b) == -b.compare(a), and
\* a.compare(b) <= 0 with b.compare(c) <= 0 implies a.compare(c) <= 0.
C4_CompareOrder ==
    op = "compare" =>
        /\ out.ab \in {-1, 0, 1}
        /\ out.ab = -out.ba
        /\ ((out.ab <= 0 /\ out.bc <= 0) => out.ac <= 0)

\* C4 witness: a is below b, b and c are FiniteSet nodes over different
\* frozensets (that position contributes 0), and compare has run.
C4_Witness ==
    /\ op = "compare"
    /\ b.cls = "FiniteSet" /\ c.cls = "FiniteSet" /\ b # c
    /\ out.ab = -1 /\ out.bc = 0 /\ out.ac = -1

\* C5: the order of the sort keys is a strict total order on nodes: the
\* comparison of two keys is antisymmetric and transitive, and two keys
\* are equal only when the nodes are equal.
C5_SortKeyStrictTotal ==
    op = "sort_key" =>
        /\ KeyCmp(out.ka, out.kb) = -KeyCmp(out.kb, out.ka)
        /\ ((KeyCmp(out.ka, out.kb) < 0 /\ KeyCmp(out.kb, out.kc) < 0)
              => KeyCmp(out.ka, out.kc) < 0)
        /\ (out.ka = out.kb => Basic_eq(a, b))

\* C6: a == b gives the same answer as a.compare(b) == 0.
C6_EqIsCompareZero ==
    op = "eq" => (out.ab <=> (Basic_compare(a, b) = 0))

(***************************************************************************)
(* Claims on subs (checked under SpecSubs)                                 *)
(***************************************************************************)
\* no pair of the sequence has an old side that is the same as its new side
NoSamePair(seq) == \A i \in 1..Len(seq) : ~aresame(seq[i][1], seq[i][2])

\* y is a subexpression of e
Occurs(y, e) == \E i \in 1..Len(Preorder(e)) : aresame(Preorder(e)[i], y)

RECURSIVE FoldSubs(_, _)

\* the left fold r0 = e, ri = _subs(r(i-1), oi, ni), taken from the last pair
FoldSubs(e, seq) ==
    IF seq = <<>> THEN e
    ELSE LET n == Len(seq)
         IN Basic_subs(FoldSubs(e, SubSeq(seq, 1, n - 1)), seq[n][1], seq[n][2]).v

Reversed(seq) == [i \in 1..Len(seq) |-> seq[Len(seq) + 1 - i]]

OpsLess(x, y) == OpsBefore_Ascending(OpsOf(x), OpsOf(y))

\* the orders in which a container may yield the pairs of a sequence
IterationOrders(seq) ==
    LET n == Len(seq)
        bij == {f \in [1..n -> 1..n] : \A i, j \in 1..n : i # j => f[i] # f[j]}
    IN {[i \in 1..n |-> seq[f[i]]] : f \in bij}

\* what the order of the pairs is decided on
OrderKey(pr) == <<OpsOf(pr[1]), default_sort_key(pr[1])>>

RECURSIVE Plug(_, _)

\* t with every placeholder of reps swapped for its new value, and nothing
\* else touched
Plug(t, reps) ==
    IF \E e \in reps : e[1] = t THEN (CHOOSE e \in reps : e[1] = t)[2]
    ELSE LET args == [i \in 1..Len(t.args) |-> Plug(t.args[i], reps)]
         IN IF args = t.args THEN t ELSE func(t, args)

RECURSIVE StripTags(_)

\* the tree without its assumption tags
StripTags(t) ==
    [t EXCEPT !.tags = {}, !.args = [i \in 1..Len(t.args) |-> StripTags(t.args[i])]]

\* the old sides put back where their placeholders stand
Unmark(t, order) ==
    StripTags(Plug(t, {<<Dummy(i), order[i][1]>> : i \in 1..Len(order)}))

RECURSIVE Exchange(_, _, _)

\* the tree with the leaves x and y exchanged
Exchange(t, x, y) ==
    IF t = x THEN y
    ELSE IF t = y THEN x
    ELSE [t EXCEPT !.args = [i \in 1..Len(t.args) |-> Exchange(t.args[i], x, y)]]

\* C9: with simultaneous=True every old occurrence is first replaced by the
\* placeholder of its pair (the marked tree is expr with placeholders where
\* old sides stood, and holds no new value), and the result is the marked
\* tree with each placeholder swapped for its new value, which is not
\* rewritten by any other pair; subs([(x, y), (y, x)], simultaneous=True)
\* exchanges x and y.
C9_SimultaneousPlaceholders ==
    (op = "subs" /\ simultaneous) =>
        /\ out.reps = {<<Dummy(i), out.order[i][2]>> : i \in 1..Len(out.order)}
        /\ Unmark(out.marked, out.order) = StripTags(expr)
        /\ out.rv = Plug(out.marked, out.reps)
        /\ \A x, y \in SubsLeaves :
              out.order = << <<x, y>>, <<y, x>> >>
                 => StripTags(out.rv) = Exchange(StripTags(expr), x, y)

\* C9 witness: subs([(x, y), (y, x)], simultaneous=True) exchanges x and y,
\* where the sequential call does not.
C9_Witness ==
    /\ op = "subs" /\ simultaneous /\ ~unordered
    /\ expr = Basic_new("Basic", <<Symbol(1), Symbol(2)>>, NoTags)
    /\ sequence = << <<Symbol(1), Symbol(2)>>, <<Symbol(2), Symbol(1)>> >>
    /\ out.rv = Basic_new("Basic", <<Symbol(2), Symbol(1)>>, NoTags)
    /\ subs(expr, sequence, FALSE, FALSE).rv
          = Basic_new("Basic", <<Symbol(1), Symbol(1)>>, NoTags)

\* C10: when y does not occur in expr, expr.subs([(x, y)]).subs([(y, x)])
\* == expr.
C10_RoundTrip ==
    (op = "roundtrip" /\ ~Occurs(sequence[1][2], expr)) => Basic_eq(out.rv, expr)

\* the pairs of seq whose two sides are not one and the same structure
WithoutIdentical(seq) == SelectSeq(seq, LAMBDA pr : pr[1] # pr[2])

\* C11: a pair whose old and new sides are structurally identical is removed
\* before any replacement is applied: no such pair is among the applied
\* pairs, the result is what the call without these pairs returns, and
\* when every pair is such a pair the result is the receiver itself.
C11_NoOpPairsDropped ==
    op = "subs" =>
        /\ \A i \in 1..Len(out.order) : out.order[i][1] # out.order[i][2]
        /\ out.rv = subs(expr, WithoutIdentical(sequence), unordered, simultaneous).rv
        /\ (WithoutIdentical(sequence) = <<>> => out.rv = expr)

\* C11 witness: a pair (x, x) whose x occurs in a node with assumptions is
\* given alone, and the node comes back with its assumptions; applying the
\* pair with _subs would have rebuilt the node without them.
C11_Witness ==
    /\ op = "subs"
    /\ Len(sequence) = 1 /\ sequence[1][1] = sequence[1][2]
    /\ Occurs(sequence[1][1], expr) /\ expr.tags # {}
    /\ out.rv = expr
    /\ Basic_subs(expr, sequence[1][1], sequence[1][2]).v # expr

(***************************************************************************)
(* Claims on the arguments of subs (checked under SpecCall)                *)
(***************************************************************************)
\* a value that cannot be iterated over
NotIterable(v) == v.kind \in {"int", "node"}

\* C12: subs raises ValueError when it is called with a single argument
\* that is not iterable or with a number of positional arguments other than
\* 1 or 2; it raises before any pair is applied and nothing is returned; a
\* call with one container of pairs or with two arguments does not raise.
C12_ArgumentShapes ==
    op = "subs_args" =>
        LET bad == \/ Len(out.args) \notin {1, 2}
                   \/ (Len(out.args) = 1 /\ NotIterable(out.args[1]))
        IN /\ bad => (out.raised = "ValueError" /\ out.order = <<>> /\ out.rv = None)
           /\ ~bad => (out.raised = "none" /\ IsBasic(out.rv))

\* C12 witness: a call with one node as its only argument, where the node
\* occurs in the receiver, has raised.
C12_Witness ==
    /\ op = "subs_args"
    /\ Len(out.args) = 1 /\ out.args[1].kind = "node"
    /\ Occurs(out.args[1].node, expr)
    /\ out.raised = "ValueError"

(***************************************************************************)
(* Claims on xreplace (checked under SpecXr)                               *)
(***************************************************************************)
\* n is, as a structure, a key of the rule; the value of that key
IsKey(n, r) == \E e \in r : e[1] = n

KeyVal(n, r) == (CHOOSE e \in r : e[1] = n)[2]

RECURSIVE OnlyKeys(_, _, _)

\* r comes from n by replacing only whole subtrees that are keys of the
\* rule by their values (the assumptions of a rebuilt node are the subject
\* of C2 and are not looked at)
OnlyKeys(n, r, rl) ==
    \/ r = n
    \/ IsKey(n, rl) /\ r = KeyVal(n, rl)
    \/ /\ ~is_Atom(n)
       /\ r.cls = n.cls
       /\ Len(r.args) = Len(n.args)
       /\ \A i \in 1..Len(n.args) : OnlyKeys(n.args[i], r.args[i], rl)

\* C13: when the node itself is a key of the rule the result is exactly
\* rule[node] (the value is not traversed again, keys inside the node are
\* ignored); in every call only whole subtrees that are structurally equal
\* to a key are replaced.
C13_OutermostExactMatch ==
    op = "xreplace" =>
        /\ IsKey(expr, ruleArg) => out.rv = KeyVal(expr, ruleArg)
        /\ OnlyKeys(expr, out.rv, ruleArg)

\* C13 witness: the node is a key, another key occurs inside it, and the
\* value of the node is itself a key with another value; the result is the
\* value of the node.
C13_Witness ==
    /\ op = "xreplace"
    /\ ~is_Atom(expr) /\ IsKey(expr, ruleArg)
    /\ \E e \in ruleArg : e[1] # expr /\ Occurs(e[1], expr)
                          /\ e[1] = KeyVal(expr, ruleArg) /\ e[2] # e[1]
    /\ out.rv = KeyVal(expr, ruleArg)

\* no subexpression of n is a key of the rule
NoKeyInside(n, r) == \A i \in 1..Len(Preorder(n)) : ~IsKey(Preorder(n)[i], r)

\* C14: when the rule is empty or no subexpression of the node is a key of
\* the rule, xreplace returns the node itself, without reconstruction.
C14_UnchangedIsSelf ==
    (op = "xreplace" /\ (ruleArg = {} \/ NoKeyInside(expr, ruleArg)))
        => (out.same /\ out.rv = expr)

\* C14 witness: a node with assumptions and arguments, a rule with keys none
\* of which occurs in the node (one of them equal to an argument up to the
\* value of an assumption); the node itself comes back.
C14_Witness ==
    /\ op = "xreplace"
    /\ ~is_Atom(expr) /\ ruleArg # {} /\ NoKeyInside(expr, ruleArg)
    /\ \E e \in ruleArg : e[1] # expr.args[1] /\ Basic_eq(e[1], expr.args[1])
    /\ out.same /\ out.rv = expr

(***************************************************************************)
(* Claims on match (checked under SpecMatch)                               *)
(***************************************************************************)
\* C15: whenever expr.match(pattern) returns a binding map d,
\* pattern.xreplace(d) == expr (a failed match returns None; the model has
\* no path on which matches raises).
C15_MatchRoundTrip ==
    (op = "match" /\ out.ok) => Basic_eq(out.back, expr)

RECURSIVE PathsOf(_)

\* the positions of a tree, each a sequence of argument indices
PathsOf(n) ==
    {<<>>} \cup UNION {{<<i>> \o q : q \in PathsOf(n.args[i])} : i \in 1..Len(n.args)}

RECURSIVE HasPath(_, _)

HasPath(n, q) ==
    q = <<>> \/ (Head(q) <= Len(n.args) /\ HasPath(n.args[Head(q)], Tail(q)))

RECURSIVE At(_, _)

\* the subtree at a position
At(n, q) == IF q = <<>> THEN n ELSE At(n.args[Head(q)], Tail(q))

\* C16: in a binding map returned by match, every wildcard of the template
\* is bound, and at every position where the wildcard stands in the
\* template the node has a subtree that is == to the binding (so the
\* subtrees at all positions of one wildcard are equal).
C16_ConsistentBindings ==
    (op = "match" /\ out.ok) =>
        \A q \in PathsOf(queryArg.node) :
            LET w == At(queryArg.node, q)
            IN w.cls = "Wild" =>
                 /\ HasPath(expr, q)
                 /\ InRule(out.d, w)
                 /\ Basic_eq(RuleGet(out.d, w), At(expr, q))

(***************************************************************************)
(* Claims on replace (checked under SpecReplace)                           *)
(***************************************************************************)
\* p is a position strictly above the position q
Above(p, q) == Len(p) < Len(q) /\ SubSeq(q, 1, Len(p)) = p

\* the query, put to the subtree at position p of the receiver, gives a
\* true result
Fires(p) == replace_query(queryArg, At(expr, p)).truthy

\* something strictly below position p is rewritten: the query fires there
ChildChanged(p) == \E q \in PathsOf(expr) : Above(p, q) /\ Fires(q)

RECURSIVE BottomUp(_, _)

\* the tree with the lowest subtrees on which the query fires replaced by
\* their values, and every node above such a subtree rebuilt by its class
BottomUp(e, p) ==
    IF ChildChanged(p)
    THEN Basic_new(e.cls, [i \in 1..Len(e.args) |-> BottomUp(e.args[i], Append(p, i))],
                   NoTags)
    ELSE IF Fires(p)
    THEN replace_value(queryArg, valueArg, e, replace_query(queryArg, e).d)
    ELSE e

\* C17: replace is bottom-up: the query is put exactly to the nodes below
\* which nothing was rewritten (never to a parent of a rewritten child,
\* original or rebuilt), such a parent is rebuilt from its new children, and
\* when the query fires nowhere the receiver itself is returned.
C17_BottomUpTraversal ==
    (op = "replace" /\ out.raised = "none") =>
        /\ out.asked = {p \in PathsOf(expr) : ~ChildChanged(p)}
        /\ out.rv = BottomUp(expr, <<>>)
        /\ (\A p \in PathsOf(expr) : ~Fires(p)) => (out.same /\ out.rv = expr)

\* C17 witness: sin(sin(x)).replace(sin, cos) is sin(cos(x)): the inner sin
\* is rewritten, the outer one is rebuilt and not asked.
C17_Witness ==
    /\ op = "replace" /\ out.raised = "none"
    /\ queryArg = QType("sin") /\ valueArg = QType("cos")
    /\ expr = Fn("sin", Fn("sin", Symbol(1)))
    /\ out.rv = Fn("sin", Fn("cos", Symbol(1)))
    /\ out.asked = {<<1>>, <<1, 1>>}

\* the query matches the node e: an instance of the class, a successful
\* match of the template, a true predicate
QueryMatches(q, e) ==
    IF q.kind = "type" THEN IsInstance(e, q.cls)
    ELSE IF q.kind = "node" THEN match(e, q.node).ok
    ELSE Predicate(q.fn, e)

\* C18: for each kind of query, a node none of whose children changed and
\* which the query matches (for a template: every successful match, with
\* any number of bound wildcards) is replaced by the computed value, and
\* with map=True the pair old -> new is recorded.
C18_MatchedNodeReplaced ==
    (op = "replace" /\ out.raised = "none") =>
        \A p \in PathsOf(expr) :
            LET e == At(expr, p)
                val == replace_value(queryArg, valueArg, e, match(e, queryArg.node).d)
            IN (~ChildChanged(p) /\ QueryMatches(queryArg, e)) =>
                  /\ HasPath(out.rv, p)
                  /\ At(out.rv, p) = val
                  /\ out.map => <<e, val>> \in out.mapping

(***************************************************************************)
(* Claims on find and count (checked under SpecFind)                       *)
(***************************************************************************)
\* the positions of the receiver whose subtree satisfies the query
MatchingPositions == {p \in PathsOf(expr) : QueryMatches(queryArg, At(expr, p))}

\* C19: find is called on every node of the tree in preorder, below a
\* matching node too; find(query, group=True) maps each distinct matching
\* node to the number of positions where it occurs, find(query) is the key
\* set of that map, and count(query) is the number of positions that
\* satisfy the query.
C19_FindCount ==
    /\ op = "find" =>
          /\ out.visited = Preorder(expr)
          /\ out.groups =
                {<<At(expr, p), Cardinality({q \in MatchingPositions : At(expr, q) = At(expr, p)})>> :
                    p \in MatchingPositions}
          /\ out.set = {g[1] : g \in out.groups}
    /\ op = "count" => out.count = Cardinality(MatchingPositions)

\* C19 witness: find on a tree where a matching node stands below a
\* matching node, and one matching node stands at two positions.
C19_Witness ==
    /\ op = "find"
    /\ \E p, q \in MatchingPositions : Above(p, q)
    /\ \E g \in out.groups : g[2] = 2
    /\ Cardinality(out.set) >= 2

\* C19 witness for count: a matching node below a matching node; both are
\* counted.
C19_CountWitness ==
    /\ op = "count"
    /\ \E p, q \in MatchingPositions : Above(p, q)
    /\ out.count = Cardinality(MatchingPositions) /\ out.count >= 2

(***************************************************************************)
(* Claims on has (checked under SpecHas)                                   *)
(***************************************************************************)
\* C20: expr.has(*patterns) is any(expr.has(p) for p in patterns): it is
\* True exactly when at least one pattern matches at least one
\* subexpression of expr, expr included, and has() without patterns is
\* False.
C20_HasAny ==
    op = "has" =>
        /\ out.all <=> (\E i \in 1..Len(patternArgs) : out.each[i])
        /\ out.all <=> (\E i \in 1..Len(patternArgs) : \E p \in PathsOf(expr) :
                           has_match(patternArgs[i], At(expr, p)))
        /\ patternArgs = <<>> => ~out.all

\* C20 witness: two patterns, the first is not found and the second matches
\* a subexpression below the top; has is True.
C20_Witness ==
    /\ op = "has"
    /\ Len(patternArgs) = 2
    /\ ~out.each[1] /\ out.each[2]
    /\ ~has_match(patternArgs[2], expr)
    /\ out.all

\* C20 witness for the empty call: has() on a node with arguments is False.
C20_EmptyWitness ==
    /\ op = "has"
    /\ patternArgs = <<>> /\ ~is_Atom(expr)
    /\ ~out.all

\* the sequence sub occurs in seq as a contiguous run that starts at some
\* position
RunIn(sub, seq) ==
    \E i \in 0..(Len(seq) - Len(sub)) :
        TupleEq(SubSeq(seq, i + 1, i + Len(sub)), sub)

\* what a pattern with top operator Add or Mul is said to accept
SubCombination(pat, cand) ==
    \/ Basic_eq(cand, pat)
    \/ /\ IsBasic(cand)
       /\ cand.cls = pat.cls
       /\ ncsplit(pat).c \subseteq ncsplit(cand).c
       /\ RunIn(ncsplit(pat).nc, ncsplit(cand).nc)

\* C21: for a pattern whose top operator is Add or Mul, a candidate
\* subexpression is accepted exactly when it equals the pattern, or it is a
\* node of the same kind whose commutative arguments include those of the
\* pattern and whose non-commutative arguments hold the pattern's
\* non-commutative arguments as a contiguous run at any starting position.
C21_SubCombination ==
    op = "has" =>
        \A i \in 1..Len(patternArgs) : \A p \in PathsOf(expr) :
            (patternArgs[i].kind = "node"
                /\ (is_Add(patternArgs[i].node) \/ is_Mul(patternArgs[i].node)))
            => (has_match(patternArgs[i], At(expr, p))
                    <=> SubCombination(patternArgs[i].node, At(expr, p)))

(***************************************************************************)
(* Claims on atoms (checked under SpecAtoms)                               *)
(***************************************************************************)
\* the subexpressions of expr, expr included
Subexpressions(e) == {At(e, p) : p \in PathsOf(e)}

\* the nodes without arguments
LeafNodes(e) == {n \in Subexpressions(e) : IsBasic(n) /\ Len(n.args) = 0}

\* a node at p is below a node of one of the kinds
InsideMatch(e, typ, p) ==
    \E q \in PathsOf(e) : Above(q, p) /\ q # p /\ InstanceOfAny(At(e, q), typ)

\* the nodes of one of the kinds that are not below another one
OutermostOfKinds(e, typ) ==
    {At(e, p) : p \in {q \in PathsOf(e) :
        /\ IsBasic(At(e, q)) /\ InstanceOfAny(At(e, q), typ)
        /\ ~InsideMatch(e, typ, q)}}

\* C22 as stated: atoms() is the set of the leaf nodes; atoms(*kinds) is
\* the set of the nodes of one of the kinds, without those that lie below
\* a collected node.
C22_AtomsStopAtMatch ==
    op = "atoms" =>
        /\ Len(patternArgs) = 0 => out.set = LeafNodes(expr)
        /\ Len(patternArgs) > 0 => out.set = OutermostOfKinds(expr, patternArgs)

\* C22, amended: atoms() is the set of the Atom nodes of the tree;
\* atoms(*kinds) is the set of all the nodes, at any depth, that are
\* instances of one of the kinds, those below a collected node included.
C22_AtomsAllOfKinds ==
    op = "atoms" =>
        /\ Len(patternArgs) = 0 =>
              out.set = {n \in Subexpressions(expr) : IsBasic(n) /\ is_Atom(n)}
        /\ Len(patternArgs) > 0 =>
              out.set = {n \in Subexpressions(expr) :
                            IsBasic(n) /\ InstanceOfAny(n, patternArgs)}

\* C22 witness: a node of one of the kinds lies below another one, and
\* both are collected.
C22_Witness ==
    /\ op = "atoms"
    /\ Len(patternArgs) > 0
    /\ \E p \in PathsOf(expr) :
          /\ InsideMatch(expr, patternArgs, p)
          /\ IsBasic(At(expr, p))
          /\ InstanceOfAny(At(expr, p), patternArgs)
          /\ At(expr, p) \in out.set
          /\ ~is_Atom(At(expr, p))
    /\ \E n \in Subexpressions(expr) : IsBasic(n) /\ n \notin out.set

(***************************************************************************)
(* Claims on the hash cache (checked under SpecHash)                       *)
(***************************************************************************)
\* _mhash is None or the hash of the node, and every call returned it
HashCacheSound ==
    /\ mhash = None \/ mhash = Basic_hash(expr)
    /\ \A t \in Threads : \A i \in 1..Len(returned[t]) :
          returned[t][i] = Basic_hash(expr)

\* a step leaves a cache that is set as it is
HashCacheKept == mhash # None => mhash' = mhash

\* C23: in every reachable state _mhash is None or the deterministic hash
\* of the node; once it is not None no step changes it, whatever the
\* number of __hash__ calls and however the calls of several threads are
\* interleaved; every caller gets the same value.
C23_CachedHashStable == [](HashCacheSound) /\ [][HashCacheKept]_vars

\* C23 witness: a thread has computed the hash and is about to store it
\* while the cache is already set by another thread, which has returned;
\* and a thread has made a second call.
C23_Witness ==
    /\ mhash # None
    /\ \E t \in Threads :
          /\ pc[t] = "computed"
          /\ \E u \in Threads \ {t} : Len(returned[u]) = MaxCalls
    /\ ~is_Atom(expr)

(***************************************************************************)
(* Claims on _subs with one pair (checked under SpecSubsOne)               *)
(***************************************************************************)
\* the child i of expr supports substitution
Supports(i) == IsBasic(expr.args[i])

\* what _subs gives on the child i of expr
ChildSubs(i) == Basic_subs(expr.args[i], sequence[1][1], sequence[1][2])

\* the arguments after the replacement in every child that supports it
NewArgs ==
    [i \in 1..Len(expr.args) |-> IF Supports(i) THEN ChildSubs(i).v ELSE expr.args[i]]

\* some child result is another object than the child
SomeChildChanged == \E i \in 1..Len(expr.args) : Supports(i) /\ ~ChildSubs(i).same

\* C24: for a node that is not the same as old, the _eval_subs hook is
\* asked first; a result of the hook that is not None is returned as it is
\* and no child is searched; when the hook gives None, every child that
\* supports substitution is replaced recursively, the node is rebuilt with
\* func(*args) only if some child result is another object, and otherwise
\* the very same node is returned; children without _eval_subs stay.
C24_HookThenFallback ==
    (op = "_subs" /\ ~aresame(expr, sequence[1][1])) =>
        LET hook == eval_subs(expr, sequence[1][1], sequence[1][2])
        IN /\ hook # None =>
                /\ out.v = hook.v /\ out.same = hook.same
                /\ out.visited = {expr}
           /\ hook = None =>
                /\ \A i \in 1..Len(expr.args) :
                      Supports(i) => expr.args[i] \in out.visited
                /\ SomeChildChanged =>
                      out.v = func(expr, NewArgs) /\ ~out.same
                /\ ~SomeChildChanged => out.v = expr /\ out.same
                /\ \A i \in 1..Len(expr.args) :
                      ~Supports(i) => out.v.args[i] = expr.args[i]

\* C24 witness for the hook: the hook answers for a node that has a child
\* the same as old, and the child is not replaced.
C24_Witness ==
    /\ op = "_subs" /\ ~aresame(expr, sequence[1][1])
    /\ eval_subs(expr, sequence[1][1], sequence[1][2]) # None
    /\ \E i \in 1..Len(expr.args) : aresame(expr.args[i], sequence[1][1])
    /\ out.same /\ out.v = expr

\* C24 witness for the fallback: the hook declines, a child without
\* _eval_subs stays, another child is replaced and the node is rebuilt.
C24_FallbackWitness ==
    /\ op = "_subs" /\ ~aresame(expr, sequence[1][1])
    /\ eval_subs(expr, sequence[1][1], sequence[1][2]) = None
    /\ \E i \in 1..Len(expr.args) : ~Supports(i)
    /\ SomeChildChanged /\ ~out.same

\* C24 witness for the unchanged node: the hook declines, no child result
\* is another object, and the node itself comes back.
C24_SameWitness ==
    /\ op = "_subs" /\ ~aresame(expr, sequence[1][1])
    /\ eval_subs(expr, sequence[1][1], sequence[1][2]) = None
    /\ Len(expr.args) = 2 /\ ~is_Atom(expr.args[1])
    /\ out.same /\ out.v = expr

(***************************************************************************)
(* Claims on inequality (checked under SpecNe)                             *)
(***************************************************************************)
\* C25: a != b is the negation of a == b for all nodes a and b, a Pow with
\* exponent 1 against its base and a node against a value that cannot be
\* converted included.
C25_NeNegatesEq ==
    op = "ne" => (out.ne <=> ~out.eq)

====
